---- MODULE Spec2Model ----
(***************************************************************************)
(* Model of app.py: the resume screener's request handlers (add_jd,        *)
(* delete_jd, delete_candidate, view_rankings, match) running as           *)
(* concurrent requests over one SQLite database file and one uploads       *)
(* folder.                                                                 *)
(*                                                                         *)
(* Every handler opens its own sqlite3 connection.  A SELECT reads the     *)
(* committed database.  The first INSERT/DELETE of a connection opens a    *)
(* transaction and takes the database write lock (at most one writer);     *)
(* the connection's changes stay in its working copy until conn.commit()   *)
(* publishes them, and are lost if the connection is closed uncommitted.   *)
(*                                                                         *)
(* Reqs are the requests of a run, numbered in arrival order; they         *)
(* overlap in every way their steps allow.  Texts are sequences of         *)
(* one-character strings.  Similarities are integers in units of           *)
(* 1/SimScale, percentages in hundredths of a percent.                     *)
(***************************************************************************)
EXTENDS Integers, Sequences, FiniteSets, TLC

\* ---------------------------------------------------------------- bounds
MaxFiles == 2
MaxJobs == 2
MaxCands == 2
MaxRequests == 2

\* The requests of a run, numbered in arrival order.
Reqs == 1..MaxRequests
NoReq == 0
Names == {"cv.pdf"}
EmptyName == ""
NoJd == 0
\* A similarity is an integer number of 1/SimScale; a percentage is an
\* integer number of hundredths (round(x * 100, 2) keeps two decimals).
Hundredths == 100 * 100
SimScale == 10 * Hundredths
SimValues == {-25000, 12346}
Titles == {"t"}
Descriptions == {"jd"}

\* ------------------------------------------------------------- documents
Marker == <<"E", "r", "r", "o", "r">>
ErrorPrefix ==
    <<"E", "r", "r", "o", "r", " ", "r", "e", "a", "d", "i", "n", "g", " ",
      "P", "D", "F", ":", " ">>
ExcText == <<"b", "a", "d">>
PlainText == <<"G", "o">>
MarkedText == <<"N", "o", " ", "E", "r", "r", "o", "r", "s">>
MissingText == <<"n", "o", " ", "f", "i", "l", "e">>

\* A document is what the uploaded bytes are: a PDF fitz can open, with its
\* page text, or bytes on which fitz raises, with the exception's message.
Docs ==
    { [ok |-> TRUE, text |-> PlainText],
      [ok |-> TRUE, text |-> MarkedText],
      [ok |-> FALSE, text |-> ExcText] }
NoDoc == [ok |-> FALSE, text |-> <<>>]

\* The file parts a form can carry: one with an empty filename (an empty
\* file input), or a named document.
Uploads ==
    { [filename |-> EmptyName, doc |-> NoDoc] }
        \cup { [filename |-> n, doc |-> d] : n \in Names, d \in Docs }

\* All sequences over S of length at most n.
SeqsUpTo(S, n) == UNION { [1..k -> S] : k \in 0..n }
FileLists == SeqsUpTo(Uploads, MaxFiles)

VARIABLES db, wdb, writer, fs, uploadsDir, pc, req, loc, resp

vars == <<db, wdb, writer, fs, uploadsDir, pc, req, loc, resp>>

\* ------------------------------------------------------------ pure parts
\* Python's `sub in s` on strings: scan the start positions left to right.
RECURSIVE FindFrom(_, _, _)
FindFrom(sub, s, k) ==
    IF k + Len(sub) - 1 > Len(s) THEN FALSE
    ELSE IF SubSeq(s, k, k + Len(sub) - 1) = sub THEN TRUE
    ELSE FindFrom(sub, s, k + 1)

StartsWithOnly(sub, s) ==
    Len(sub) <= Len(s) /\ SubSeq(s, 1, Len(sub)) = sub

Contains(sub, s) == FindFrom(sub, s, 1)

\* extract_text_from_pdf on what is at the path: the page text, or the
\* f-string "Error reading PDF: {e}" when fitz raises (bad bytes, no file).
extract_text_from_pdf(present, doc) ==
    IF present /\ doc.ok THEN doc.text
    ELSE IF present THEN ErrorPrefix \o doc.text
    ELSE ErrorPrefix \o MissingText

\* round(x, 0) on an exact quotient n/d: nearest integer, ties to even.
RoundHalfEven(n, d) ==
    LET q == n \div d
        m == n % d
    IN  IF 2 * m < d THEN q
        ELSE IF 2 * m > d THEN q + 1
        ELSE IF q % 2 = 0 THEN q ELSE q + 1

\* round(similarity_score * 100, 2), in hundredths of a percent.
match_percentage(sim) == RoundHalfEven(sim * Hundredths, SimScale)

\* ------------------------------------------------------------------ state
EmptyDb == [jobs |-> {}, cands |-> {}, seqJob |-> 0, seqCand |-> 0]
NoFile == [present |-> FALSE, owner |-> NoReq, doc |-> NoDoc]
NoReqRec ==
    [kind |-> "none", jd_id |-> NoJd, files |-> <<>>, id |-> 0,
     title |-> "", description |-> ""]
NoLoc ==
    [i |-> 0, processed_count |-> 0, resume_text |-> <<>>,
     candidate |-> 0, found |-> FALSE]
NoResp ==
    [code |-> 0, target |-> "", job_id |-> 0, processed |-> 0,
     submitted |-> 0]

JobIds(d) == { j.id : j \in d.jobs }

\* database.db outlives the process (CREATE TABLE IF NOT EXISTS): the app
\* starts on a new store or on the store an earlier run left behind, here
\* two jobs and one scored resume of the first.
StoredDb ==
    [jobs |-> { [id |-> j, title |-> "t", description |-> "jd"] : j \in 1..2 },
     cands |-> { [id |-> 1, filename |-> "cv.pdf",
                  match_percentage |-> match_percentage(12346), job_id |-> 1] },
     seqJob |-> 2, seqCand |-> 1]
InitialStores == {EmptyDb, StoredDb}

Init ==
    /\ db \in InitialStores
    /\ wdb = db
    /\ writer = NoReq
    /\ fs = [n \in Names |-> NoFile]
    /\ uploadsDir = FALSE
    /\ pc = [r \in Reqs |-> "idle"]
    /\ req = [r \in Reqs |-> NoReqRec]
    /\ loc = [r \in Reqs |-> NoLoc]
    /\ resp = [r \in Reqs |-> NoResp]

\* The connection's view for its next write statement.
CanWrite(r) == writer \in {NoReq, r}
Work(r) == IF writer = r THEN wdb ELSE db

Goto(r, label) == pc' = [pc EXCEPT ![r] = label]

Respond(r, code, target, job_id, processed, submitted) ==
    resp' = [resp EXCEPT ![r] =
                [code |-> code, target |-> target, job_id |-> job_id,
                 processed |-> processed, submitted |-> submitted]]

\* The handler returns: its frame (request object, locals) is gone.
Return(r) ==
    /\ pc' = [pc EXCEPT ![r] = "done"]
    /\ req' = [req EXCEPT ![r] = NoReqRec]
    /\ loc' = [loc EXCEPT ![r] = NoLoc]

\* conn.commit(): publish the working copy, release the write lock.
Commit(r) ==
    IF writer = r
    THEN /\ db' = wdb
         /\ wdb' = wdb
         /\ writer' = NoReq
    ELSE UNCHANGED <<db, wdb, writer>>

\* Request r arrives with its parameters, after the requests numbered
\* before it.
Arrive(r, request) ==
    /\ pc[r] = "idle"
    /\ \A q \in Reqs : q < r => pc[q] # "idle"
    /\ req' = [req EXCEPT ![r] = request]

\* An unhandled exception: Flask answers 500; the connection is left open
\* and uncommitted until ConnClose.
Fault(r) ==
    /\ pc' = [pc EXCEPT ![r] = "faulted"]
    /\ req' = [req EXCEPT ![r] = NoReqRec]
    /\ loc' = [loc EXCEPT ![r] = NoLoc]
    /\ Respond(r, 500, "", 0, 0, 0)

WriteStmts == {"aj_insert", "dj_cands", "dj_job", "dc_delete", "m_score"}

\* A write statement that cannot get the write lock within the connection's
\* timeout raises sqlite3.OperationalError (database is locked).
SqlBusy(r) ==
    /\ pc[r] \in WriteStmts
    /\ ~CanWrite(r)
    /\ Fault(r)
    /\ UNCHANGED <<db, wdb, writer, fs, uploadsDir>>

\* The connection of a request that raised is closed when it is collected:
\* its uncommitted transaction is rolled back and the write lock released.
ConnClose(r) ==
    /\ pc[r] = "faulted"
    /\ IF writer = r
       THEN /\ wdb' = db
            /\ writer' = NoReq
       ELSE UNCHANGED <<wdb, writer>>
    /\ Goto(r, "done")
    /\ UNCHANGED <<db, fs, uploadsDir, req, loc, resp>>

\* ------------------------------------------------------------- add_jd
AddJdBegin(r) ==
    \E t \in Titles, d \in Descriptions :
        /\ Arrive(r, [NoReqRec EXCEPT !.kind = "add_jd", !.title = t, !.description = d])
        /\ loc' = [loc EXCEPT ![r] = NoLoc]
        /\ Goto(r, "aj_insert")
        /\ resp' = [resp EXCEPT ![r] = NoResp]
        /\ UNCHANGED <<db, wdb, writer, fs, uploadsDir>>

AddJdInsert(r) ==
    /\ pc[r] = "aj_insert"
    /\ CanWrite(r)
    /\ Work(r).seqJob < MaxJobs
    /\ LET w == Work(r)
           id == w.seqJob + 1
       IN  wdb' = [w EXCEPT !.jobs = @ \cup {[id |-> id, title |-> req[r].title,
                                              description |-> req[r].description]},
                            !.seqJob = id]
    /\ writer' = r
    /\ Goto(r, "aj_commit")
    /\ UNCHANGED <<db, fs, uploadsDir, req, loc, resp>>

AddJdCommit(r) ==
    /\ pc[r] = "aj_commit"
    /\ Commit(r)
    /\ Respond(r, 302, "index", 0, 0, 0)
    /\ Return(r)
    /\ UNCHANGED <<fs, uploadsDir>>

\* ---------------------------------------------------------- delete_jd
DelJdBegin(r) ==
    \E j \in 1..MaxJobs :
        /\ Arrive(r, [NoReqRec EXCEPT !.kind = "delete_jd", !.id = j])
        /\ loc' = [loc EXCEPT ![r] = NoLoc]
        /\ Goto(r, "dj_cands")
        /\ resp' = [resp EXCEPT ![r] = NoResp]
        /\ UNCHANGED <<db, wdb, writer, fs, uploadsDir>>

DelJdCandsNoCascade(r) ==
    /\ pc[r] = "dj_cands"
    /\ CanWrite(r)
    /\ wdb' = Work(r)
    /\ writer' = r
    /\ Goto(r, "dj_job")
    /\ UNCHANGED <<db, fs, uploadsDir, req, loc, resp>>

\* DELETE FROM candidates WHERE job_id = ?
DelJdCands(r) ==
    /\ pc[r] = "dj_cands"
    /\ CanWrite(r)
    /\ wdb' = [Work(r) EXCEPT !.cands = { c \in @ : c.job_id # req[r].id }]
    /\ writer' = r
    /\ Goto(r, "dj_job")
    /\ UNCHANGED <<db, fs, uploadsDir, req, loc, resp>>

\* DELETE FROM job_descriptions WHERE id = ?
DelJdJob(r) ==
    /\ pc[r] = "dj_job"
    /\ CanWrite(r)
    /\ wdb' = [Work(r) EXCEPT !.jobs = { j \in @ : j.id # req[r].id }]
    /\ writer' = r
    /\ Goto(r, "dj_commit")
    /\ UNCHANGED <<db, fs, uploadsDir, req, loc, resp>>

DelJdCommit(r) ==
    /\ pc[r] = "dj_commit"
    /\ Commit(r)
    /\ Respond(r, 302, "index", 0, 0, 0)
    /\ Return(r)
    /\ UNCHANGED <<fs, uploadsDir>>

\* ---------------------------------------------------- delete_candidate
\* SELECT job_id FROM candidates WHERE id = ?  (candidate = 0 models None)
DelCandSelect(r) ==
    \E c \in 1..MaxCands :
        /\ Arrive(r, [NoReqRec EXCEPT !.kind = "delete_candidate", !.id = c])
        /\ LET rows == { x \in db.cands : x.id = c }
           IN  loc' = [loc EXCEPT ![r] =
                          [NoLoc EXCEPT !.candidate =
                              IF rows = {} THEN 0 ELSE (CHOOSE x \in rows : TRUE).job_id,
                                        !.found = (rows # {})]]
        /\ Goto(r, "dc_delete")
        /\ resp' = [resp EXCEPT ![r] = NoResp]
        /\ UNCHANGED <<db, wdb, writer, fs, uploadsDir>>

\* DELETE FROM candidates WHERE id = ?
DelCandDelete(r) ==
    /\ pc[r] = "dc_delete"
    /\ CanWrite(r)
    /\ wdb' = [Work(r) EXCEPT !.cands = { c \in @ : c.id # req[r].id }]
    /\ writer' = r
    /\ Goto(r, "dc_commit")
    /\ UNCHANGED <<db, fs, uploadsDir, req, loc, resp>>

DelCandCommit(r) ==
    /\ pc[r] = "dc_commit"
    /\ Commit(r)
    /\ IF loc[r].found
       THEN Respond(r, 302, "view_rankings", loc[r].candidate, 0, 0)
       ELSE Respond(r, 302, "index", 0, 0, 0)
    /\ Return(r)
    /\ UNCHANGED <<fs, uploadsDir>>

\* ------------------------------------------------------- view_rankings
\* SELECT * FROM job_descriptions WHERE id = ?
ViewSelectJob(r) ==
    \E j \in 1..MaxJobs :
        /\ Arrive(r, [NoReqRec EXCEPT !.kind = "view_rankings", !.id = j])
        /\ loc' = [loc EXCEPT ![r] = [NoLoc EXCEPT !.found = (j \in JobIds(db))]]
        /\ Goto(r, "vr_cands")
        /\ resp' = [resp EXCEPT ![r] = NoResp]
        /\ UNCHANGED <<db, wdb, writer, fs, uploadsDir>>

\* SELECT * FROM candidates WHERE job_id = ? ; then 404 or the page
ViewSelectCands(r) ==
    /\ pc[r] = "vr_cands"
    /\ IF ~loc[r].found
           THEN Respond(r, 404, "", 0, 0, 0)
           ELSE Respond(r, 200, "rankings", req[r].id, 0, 0)
    /\ Return(r)
    /\ UNCHANGED <<db, wdb, writer, fs, uploadsDir>>

\* --------------------------------------------------------------- match
Submitted(files) == Len(files)
NoUpload(files) ==
    files = <<>> \/ (Len(files) = 1 /\ files[1].filename = EmptyName)

\* lines 127-128: the request's form: the file parts and jd_id
MatchBegin(r) ==
    \E files \in FileLists, jd \in {NoJd} \cup (1..MaxJobs) :
        /\ Arrive(r, [NoReqRec EXCEPT !.kind = "match", !.jd_id = jd, !.files = files])
        /\ loc' = [loc EXCEPT ![r] = NoLoc]
        /\ resp' = [resp EXCEPT ![r] = NoResp]
        /\ Goto(r, "m_select")
        /\ UNCHANGED <<db, wdb, writer, fs, uploadsDir>>

MatchSelectNo404(r) ==
    /\ pc[r] = "m_select"
    /\ IF NoUpload(req[r].files) \/ req[r].jd_id = NoJd
       THEN /\ Respond(r, 400, "", 0, 0, 0)
            /\ Return(r)
       ELSE /\ loc' = [loc EXCEPT ![r].found = TRUE, ![r].i = 1, ![r].processed_count = 0]
            /\ Goto(r, "m_loop")
            /\ UNCHANGED <<req, resp>>
    /\ UNCHANGED <<db, wdb, writer, fs, uploadsDir>>

\* lines 130-145: answer 400 on no files or no jd_id; SELECT the job
\* description and answer 404 when there is none; else start the batch
MatchSelect(r) ==
    /\ pc[r] = "m_select"
    /\ IF NoUpload(req[r].files) \/ req[r].jd_id = NoJd
       THEN /\ Respond(r, 400, "", 0, 0, 0)
            /\ Return(r)
       ELSE IF req[r].jd_id \notin JobIds(db)
       THEN /\ Respond(r, 404, "", 0, 0, 0)
            /\ Return(r)
       ELSE /\ loc' = [loc EXCEPT ![r].found = TRUE, ![r].i = 1, ![r].processed_count = 0]
            /\ Goto(r, "m_loop")
            /\ UNCHANGED <<req, resp>>
    /\ UNCHANGED <<db, wdb, writer, fs, uploadsDir>>

CurFile(r) == req[r].files[loc[r].i]
CurPath(r) == CurFile(r).filename

\* lines 147-156: next file of the batch; skip an empty filename, else make
\* the uploads folder and save the bytes to uploads/<filename>
MatchLoop(r) ==
    /\ pc[r] = "m_loop"
    /\ IF loc[r].i > Len(req[r].files)
       THEN /\ Goto(r, "m_commit")
            /\ UNCHANGED <<fs, uploadsDir, loc>>
       ELSE IF CurPath(r) = EmptyName
       THEN /\ loc' = [loc EXCEPT ![r].i = @ + 1]
            /\ UNCHANGED <<fs, uploadsDir, pc>>
       ELSE /\ uploadsDir' = TRUE
            /\ fs' = [fs EXCEPT ![CurPath(r)] =
                         [present |-> TRUE, owner |-> r, doc |-> CurFile(r).doc]]
            /\ Goto(r, "m_extract")
            /\ UNCHANGED loc
    /\ UNCHANGED <<db, wdb, writer, req, resp>>

\* lines 158-159: extract the text at the path, test it for "Error"
MatchExtract(r) ==
    /\ pc[r] = "m_extract"
    /\ LET f == fs[CurPath(r)]
           resume_text == extract_text_from_pdf(f.present, f.doc)
       IN  /\ loc' = [loc EXCEPT ![r].resume_text = resume_text]
           /\ IF Contains(Marker, resume_text)
              THEN Goto(r, "m_rm_err")
              ELSE Goto(r, "m_score")
    /\ UNCHANGED <<db, wdb, writer, fs, uploadsDir, req, resp>>

\* os.remove(path): FileNotFoundError when nothing is at the path
OsRemove(r, then) ==
    IF fs[CurPath(r)].present
    THEN /\ fs' = [fs EXCEPT ![CurPath(r)] = NoFile]
         /\ loc' = then
         /\ Goto(r, "m_loop")
         /\ UNCHANGED <<req, resp>>
    ELSE /\ Fault(r)
         /\ UNCHANGED fs

MatchRemoveErrKeep(r) ==
    /\ pc[r] = "m_rm_err"
    /\ loc' = [loc EXCEPT ![r].i = @ + 1]
    /\ Goto(r, "m_loop")
    /\ UNCHANGED <<db, wdb, writer, fs, uploadsDir, req, resp>>

\* lines 160-161: the failed document's file is removed, next file
MatchRemoveErr(r) ==
    /\ pc[r] = "m_rm_err"
    /\ OsRemove(r, [loc EXCEPT ![r].i = @ + 1])
    /\ UNCHANGED <<db, wdb, writer, uploadsDir>>

\* lines 163-165: the model or the tagger raises
MatchScoreFault(r) ==
    /\ pc[r] = "m_score"
    /\ Fault(r)
    /\ UNCHANGED <<db, wdb, writer, fs, uploadsDir>>

\* The row of lines 168-171 for the oracle's similarity sim.
CandidateRow(r, id, sim) ==
    [id |-> id, filename |-> CurPath(r),
     match_percentage |-> match_percentage(sim), job_id |-> req[r].jd_id]

MatchInsertAutocommit(r) ==
    /\ pc[r] = "m_score"
    /\ CanWrite(r)
    /\ Work(r).seqCand < MaxCands
    /\ \E sim \in SimValues :
           LET w == Work(r)
               id == w.seqCand + 1
               new == [w EXCEPT !.cands = @ \cup {CandidateRow(r, id, sim)}, !.seqCand = id]
           IN  /\ wdb' = new
               /\ db' = new
    /\ writer' = NoReq
    /\ Goto(r, "m_remove")
    /\ UNCHANGED <<fs, uploadsDir, req, loc, resp>>

\* lines 163-171: the oracle's similarity, scaled and rounded, then
\* INSERT INTO candidates inside the connection's transaction
MatchInsert(r) ==
    /\ pc[r] = "m_score"
    /\ CanWrite(r)
    /\ Work(r).seqCand < MaxCands
    /\ \E sim \in SimValues :
           LET w == Work(r)
               id == w.seqCand + 1
           IN  wdb' = [w EXCEPT !.cands = @ \cup {CandidateRow(r, id, sim)}, !.seqCand = id]
    /\ writer' = r
    /\ Goto(r, "m_remove")
    /\ UNCHANGED <<db, fs, uploadsDir, req, loc, resp>>

\* lines 173-174: the scored document's file is removed and counted
MatchRemove(r) ==
    /\ pc[r] = "m_remove"
    /\ OsRemove(r, [loc EXCEPT ![r].i = @ + 1, ![r].processed_count = @ + 1])
    /\ UNCHANGED <<db, wdb, writer, uploadsDir>>

\* lines 176-179: commit once for the batch, report the counts
MatchCommit(r) ==
    /\ pc[r] = "m_commit"
    /\ Commit(r)
    /\ Respond(r, 200, "", 0, loc[r].processed_count, Submitted(req[r].files))
    /\ Return(r)
    /\ UNCHANGED <<fs, uploadsDir>>

\* ------------------------------------------------------------------ spec
Next ==
    \E r \in Reqs :
        \/ AddJdBegin(r) \/ AddJdInsert(r) \/ AddJdCommit(r)
        \/ DelJdBegin(r) \/ DelJdCands(r) \/ DelJdJob(r) \/ DelJdCommit(r)
        \/ DelCandSelect(r) \/ DelCandDelete(r) \/ DelCandCommit(r)
        \/ ViewSelectJob(r) \/ ViewSelectCands(r)
        \/ MatchBegin(r) \/ MatchSelect(r) \/ MatchLoop(r) \/ MatchExtract(r)
        \/ MatchRemoveErr(r) \/ MatchScoreFault(r)
        \/ MatchInsert(r) \/ MatchRemove(r) \/ MatchCommit(r)
        \/ SqlBusy(r) \/ ConnClose(r)

Spec == Init /\ [][Next]_vars

\* ----------------------------------------------------------- properties
\* The step is one of request r's own.
Step(r) == pc'[r] # pc[r] \/ loc'[r] # loc[r]

Processing == {"m_extract", "m_rm_err", "m_score", "m_remove"}

Named(files) == { i \in 1..Len(files) : files[i].filename # EmptyName }
Parseable(files) == { i \in Named(files) : files[i].doc.ok }

\* t holds the five characters E r r o r at consecutive positions.
HasMarker(t) ==
    \E k \in 1..Len(t) :
        /\ k + 4 <= Len(t)
        /\ t[k] = "E" /\ t[k + 1] = "r" /\ t[k + 2] = "r"
        /\ t[k + 3] = "o" /\ t[k + 4] = "r"

\* C1: a match on an existing job whose batch is N parseable and M
\* unparseable documents (every part a named document) creates exactly N
\* rows, all of that job, and reports N processed of N+M submitted.
C1_RowsEqualParseable ==
    [][\A r \in Reqs :
          (pc[r] = "m_commit" /\ pc'[r] = "done"
               /\ Named(req[r].files) = 1..Len(req[r].files)) =>
              LET N == Cardinality(Parseable(req[r].files))
                  M == Cardinality(Named(req[r].files)) - N
                  created == db'.cands \ db.cands
              IN  /\ Cardinality(created) = N
                  /\ \A c \in created : c.job_id = req[r].jd_id
                  /\ resp'[r].processed = N
                  /\ resp'[r].submitted = N + M]_vars

\* C2 as stated: when document k of a batch fails (its extraction failed,
\* or a fault was raised), the rows inserted for the earlier documents are
\* already in the committed store.
C2_EarlierRowsPersisted ==
    \A r \in Reqs :
        (pc[r] \in {"m_rm_err", "faulted"} /\ writer = r) =>
            wdb.cands \subseteq db.cands

\* C2 amended: no step of a match request changes the committed store
\* except its single commit after the last document, which adds exactly
\* the processed_count rows of the batch (skipped documents lose nothing);
\* closing the connection of a request that raised leaves the committed
\* store as it was and discards the rows inserted so far.
C2_OneCommitPerBatch ==
    [][\A r \in Reqs :
          /\ (req[r].kind = "match" /\ Step(r)) =>
                IF pc[r] = "m_commit"
                THEN /\ db.cands \subseteq db'.cands
                     /\ Cardinality(db'.cands \ db.cands) = loc[r].processed_count
                     /\ db'.jobs = db.jobs
                ELSE db' = db
          /\ (pc[r] = "faulted" /\ pc'[r] = "done") =>
                /\ db' = db
                /\ writer = r => (wdb' = db /\ writer' = NoReq)]_vars

\* A two-document batch whose first document was inserted and whose second
\* failed extraction is about to commit.
C2_Witness ==
    \E r \in Reqs :
        /\ pc[r] = "m_commit"
        /\ writer = r
        /\ loc[r].processed_count = 1
        /\ Len(req[r].files) = 2
        /\ ~req[r].files[2].doc.ok
        /\ req[r].files[2].filename # EmptyName
        /\ wdb.cands # db.cands

\* C3: match inserts a candidate row only while a job description with its
\* jobId exists in the store.
C3_NoOrphanInsert ==
    [][\A r \in Reqs :
          (pc[r] = "m_score" /\ pc'[r] = "m_remove") =>
              req[r].jd_id \in JobIds(db)]_vars

\* The commit of delete_jd(id): the job and its candidate rows leave the
\* committed store in that one step and nothing else changes; no other
\* step of delete_jd changes the committed store.
DeleteJdEffect(r) ==
    (req[r].kind = "delete_jd" /\ Step(r)) =>
        IF pc[r] = "dj_commit"
        THEN /\ db'.jobs = { j \in db.jobs : j.id # req[r].id }
             /\ db'.cands = { c \in db.cands : c.job_id # req[r].id }
             /\ db'.seqJob = db.seqJob
             /\ db'.seqCand = db.seqCand
        ELSE db' = db

\* A view_rankings request that has read the job row and not yet the
\* candidate rows: its page shows the job next to what the second SELECT
\* finds.
ReaderBetweenSelects(q, id) ==
    pc[q] = "vr_cands" /\ loc[q].found /\ req[q].id = id

\* C4 as stated: delete_jd removes the job and its candidates together and
\* leaves the rest unchanged, and no reader sees the job while its
\* candidates are already removed.
C4_NoReaderSeesHalf ==
    [][\A r \in Reqs :
          /\ DeleteJdEffect(r)
          /\ (pc[r] = "dj_commit" /\ pc'[r] = "done"
                  /\ \E c \in db.cands : c.job_id = req[r].id) =>
                ~ \E q \in Reqs : ReaderBetweenSelects(q, req[r].id)]_vars

\* C4 amended: delete_jd removes the job and its candidate rows in one
\* commit and leaves every other job and row unchanged, so every single
\* SELECT sees both deletions or neither.
C4_DeleteJdOneCommit ==
    [][\A r \in Reqs : DeleteJdEffect(r)]_vars

\* delete_jd of a job with a candidate row is about to commit, and the
\* store holds another job.
C4_Witness ==
    \E r \in Reqs :
        /\ pc[r] = "dj_commit"
        /\ writer = r
        /\ \E c \in db.cands : c.job_id = req[r].id
        /\ \E j \in db.jobs : j.id # req[r].id
        /\ req[r].id \in JobIds(db)
        /\ req[r].id \notin JobIds(wdb)

\* C5: delete_candidate on an existing row deletes exactly that row; on a
\* missing row it changes nothing and redirects to the job list; the
\* redirect never targets the ranking page of a job that does not exist.
C5_RedirectToExistingJob ==
    [][\A r \in Reqs :
          (pc[r] = "dc_commit" /\ pc'[r] = "done") =>
              /\ db'.cands = { c \in db.cands : c.id # req[r].id }
              /\ db'.jobs = db.jobs
              /\ (~loc[r].found => resp'[r].target = "index")
              /\ (resp'[r].target = "view_rankings" =>
                      resp'[r].job_id \in JobIds(db'))]_vars

C7_TransientFilesRemoved ==
    [][\A r \in Reqs :
          /\ (pc[r] = "m_commit" /\ pc'[r] = "done") =>
                \A n \in Names : ~(fs'[n].present /\ fs'[n].owner = r)
          /\ \A n \in Names :
                (fs'[n].present /\ fs'[n].owner = r /\ resp'[r].code # 500) =>
                    (pc'[r] \in Processing /\ req'[r].files[loc'[r].i].filename = n)]_vars

\* A request that saved one file for a document it scored and one for a
\* document whose extraction failed is about to respond.
C7_Witness ==
    \E r \in Reqs :
        /\ pc[r] = "m_commit"
        /\ loc[r].processed_count = 1
        /\ Cardinality(Named(req[r].files)) = 2
        /\ \A n \in Names : ~fs[n].present

\* C8: the match_percentage of every candidate row is within 0..100 percent.
C8_PercentageInRange ==
    \A c \in db.cands \cup wdb.cands :
        /\ c.match_percentage >= 0
        /\ c.match_percentage <= Hundredths

\* C9: extraction never raises; a failed open/parse yields a string holding
\* the marker; the document is classified as failed exactly when the
\* extracted string holds the marker, also when the resume's own text does;
\* a failed document gets no row and is not counted.
C9_FailedIffMarker ==
    [][\A r \in Reqs :
          /\ (pc[r] = "m_extract" /\ Step(r)) =>
                LET f == fs[CurPath(r)]
                    t == loc'[r].resume_text
                IN  /\ pc'[r] \in {"m_rm_err", "m_score"}
                    /\ (pc'[r] = "m_rm_err") <=> HasMarker(t)
                    /\ (f.present /\ f.doc.ok) => t = f.doc.text
                    /\ ~(f.present /\ f.doc.ok) => HasMarker(t)
          /\ (pc[r] = "m_rm_err" /\ pc'[r] = "m_loop") =>
                /\ loc'[r].processed_count = loc[r].processed_count
                /\ UNCHANGED <<db, wdb>>]_vars

\* A resume that was opened and whose own text holds the marker has been
\* classified as failed.
C9_Witness ==
    \E r \in Reqs :
        /\ pc[r] = "m_rm_err"
        /\ CurFile(r).doc.ok
        /\ loc[r].resume_text = CurFile(r).doc.text

\* C10: while a match request processes a document, the file at its path
\* is the one this request saved: nobody overwrote or removed it.
C10_OwnFileWhileProcessing ==
    \A r \in Reqs :
        pc[r] \in Processing =>
            /\ fs[CurPath(r)].present
            /\ fs[CurPath(r)].owner = r

====
